---- MODULE Spec2Model ----
(***************************************************************************)
(* Model of microdot-core/src/labels.rs: NodeInfo::parse, extract_hashtags *)
(* and extract_variables.  A string is a sequence of one-character         *)
(* strings; a HashSet is carried as the sequence in which it iterates.     *)
(***************************************************************************)
EXTENDS Integers, Sequences, FiniteSets, TLC

VARIABLES input, pc, hashes, new_label, work_done, passes, hashtags, text1,
          variables, label, tags, subgraph

vars == <<input, pc, hashes, new_label, work_done, passes, hashtags, text1,
          variables, label, tags, subgraph>>

(***************************************************************************)
(* Characters.                                                             *)
(***************************************************************************)
UpperSeq == <<"A","B","C","D","E","F","G","H","I","J","K","L","M",
              "N","O","P","Q","R","S","T","U","V","W","X","Y","Z">>

LowerSeq == <<"a","b","c","d","e","f","g","h","i","j","k","l","m",
              "n","o","p","q","r","s","t","u","v","w","x","y","z">>

DigitSeq == <<"0","1","2","3","4","5","6","7","8","9">>

Upper == {UpperSeq[i] : i \in DOMAIN UpperSeq}

Lower == {LowerSeq[i] : i \in DOMAIN LowerSeq}

Digit == {DigitSeq[i] : i \in DOMAIN DigitSeq}

\* [A-Za-z]
Letter == Upper \cup Lower

\* [A-Za-z0-9_-]
WordChar == Letter \cup Digit \cup {"_", "-"}

\* the ASCII characters str::trim removes
WhiteSpace == {" ", "\t", "\n", "\r"}

\* the bytes of the other ASCII characters the model writes
OtherOrd == (" " :> 32) @@ ("!" :> 33) @@ ("#" :> 35) @@ ("$" :> 36) @@
            ("-" :> 45) @@ ("." :> 46) @@ ("=" :> 61) @@ ("_" :> 95)

\* the byte of a character
Ord == [c \in Letter \cup Digit \cup DOMAIN OtherOrd |->
          IF c \in Upper THEN 64 + (CHOOSE i \in DOMAIN UpperSeq : UpperSeq[i] = c)
          ELSE IF c \in Lower THEN 96 + (CHOOSE i \in DOMAIN LowerSeq : LowerSeq[i] = c)
          ELSE IF c \in Digit THEN 47 + (CHOOSE i \in DOMAIN DigitSeq : DigitSeq[i] = c)
          ELSE OtherOrd[c]]

(***************************************************************************)
(* Strings.                                                                *)
(***************************************************************************)
Range(s) == {s[i] : i \in DOMAIN s}

\* str::starts_with
StartsWith(s, p) == Len(p) <= Len(s) /\ SubSeq(s, 1, Len(p)) = p

\* str::contains in the place of str::ends_with
Contains(s, p) == \E i \in 0..(Len(s) - Len(p)) : SubSeq(s, i + 1, i + Len(p)) = p

\* str::ends_with
EndsWith(s, p) == Len(p) <= Len(s) /\ SubSeq(s, Len(s) - Len(p) + 1, Len(s)) = p

RECURSIVE TrimStart(_)
TrimStart(s) ==
    IF s # <<>> /\ Head(s) \in WhiteSpace THEN TrimStart(Tail(s)) ELSE s

RECURSIVE TrimEnd(_)
TrimEnd(s) ==
    IF s # <<>> /\ s[Len(s)] \in WhiteSpace
    THEN TrimEnd(SubSeq(s, 1, Len(s) - 1)) ELSE s

\* str::trim
Trim(s) == TrimEnd(TrimStart(s))

\* Ord for String: byte-wise lexicographic, a proper prefix comes first
RECURSIVE StrLess(_, _)
StrLess(a, b) ==
    IF b = <<>> THEN FALSE
    ELSE IF a = <<>> THEN TRUE
    ELSE IF Head(a) # Head(b) THEN Ord[Head(a)] < Ord[Head(b)]
    ELSE StrLess(Tail(a), Tail(b))

\* the orders in which a HashSet holding S may iterate
Perms(S) ==
    {f \in [1..Cardinality(S) -> S] : \A i, j \in 1..Cardinality(S) : f[i] = f[j] => i = j}

\* a string put in its place in a sorted vector
RECURSIVE Insert(_, _)
Insert(x, v) ==
    IF v = <<>> THEN <<x>>
    ELSE IF StrLess(Head(v), x) THEN <<Head(v)>> \o Insert(x, Tail(v))
    ELSE <<x>> \o v

\* Vec::sort on a vector of strings
RECURSIVE SortVec(_)
SortVec(v) ==
    IF v = <<>> THEN <<>> ELSE Insert(Head(v), SortVec(Tail(v)))

(***************************************************************************)
(* crate::hash::HashTag: a wrapper around the matched string.              *)
(***************************************************************************)
HashTagNew(s) == [hash |-> s]

HashTagToString(t) == t.hash

\* "#SG_"
SG == <<"#", "S", "G", "_">>

(***************************************************************************)
(* extract_hashtags.                                                       *)
(***************************************************************************)
\* the last index of the run of characters of class C that starts at i
\* (i - 1 when s[i] is not in C)
RECURSIVE RunEnd(_, _, _)
RunEnd(s, i, C) ==
    IF i <= Len(s) /\ s[i] \in C THEN RunEnd(s, i + 1, C) ELSE i - 1

\* the matches of #[A-Za-z], the pattern without its repeated tail
RECURSIVE HashMatchesNoTail(_, _)
HashMatchesNoTail(s, i) ==
    IF i > Len(s) THEN {}
    ELSE IF s[i] = "#" /\ i + 1 <= Len(s) /\ s[i + 1] \in Letter
         THEN {SubSeq(s, i, i + 1)} \cup HashMatchesNoTail(s, i + 2)
         ELSE HashMatchesNoTail(s, i + 1)

\* rx.captures_iter(input) for #[A-Za-z][A-Za-z0-9_-]*: the matched
\* substrings, leftmost first and not overlapping, from index i on
RECURSIVE HashMatchesFrom(_, _)
HashMatchesFrom(s, i) ==
    IF i > Len(s) THEN {}
    ELSE IF s[i] = "#" /\ i + 1 <= Len(s) /\ s[i + 1] \in Letter
         THEN LET j == RunEnd(s, i + 2, WordChar)
              IN  {SubSeq(s, i, j)} \cup HashMatchesFrom(s, j + 1)
         ELSE HashMatchesFrom(s, i + 1)

HashMatches(s) == HashMatchesFrom(s, 1)

\* the loop body that cuts the hashtag and leaves work_done as it was
TryHashNoFlag(acc, hash) ==
    IF acc.ok /\ EndsWith(acc.text, hash)
    THEN [acc EXCEPT !.text = SubSeq(acc.text, 1, Len(acc.text) - Len(hash))]
    ELSE acc

\* the loop body that assigns work_done on both branches
TryHashResetFlag(acc, hash) ==
    IF acc.ok /\ EndsWith(acc.text, hash)
    THEN [text |-> SubSeq(acc.text, 1, Len(acc.text) - Len(hash)),
          work_done |-> TRUE, ok |-> TRUE]
    ELSE [acc EXCEPT !.work_done = FALSE]

\* the loop body that cuts one character more than the hashtag
TryHashOffByOne(acc, hash) ==
    IF acc.ok /\ EndsWith(acc.text, hash)
    THEN LET split_at == Len(acc.text) - Len(hash) - 1
         IN  IF split_at \in 0..Len(acc.text)
             THEN [text |-> SubSeq(acc.text, 1, split_at), work_done |-> TRUE, ok |-> TRUE]
             ELSE [acc EXCEPT !.ok = FALSE]
    ELSE acc

\* the body of the for loop over hashes.iter(): one hashtag tried on the
\* working text; acc is [text, work_done, ok], ok = FALSE once a slice
\* index fell outside the text (usize underflow or slice panic)
TryHash(acc, hash) ==
    IF acc.ok /\ EndsWith(acc.text, hash)
    THEN LET split_at == Len(acc.text) - Len(hash)
         IN  IF split_at \in 0..Len(acc.text)
             THEN [text |-> SubSeq(acc.text, 1, split_at), work_done |-> TRUE, ok |-> TRUE]
             ELSE [acc EXCEPT !.ok = FALSE]
    ELSE acc

RECURSIVE ForHashes(_, _)
ForHashes(acc, order) ==
    IF order = <<>> THEN acc
    ELSE ForHashes(TryHash(acc, Head(order)), Tail(order))

\* the pass that trims after the hashtags were tried, not before
TrimPassTrimLast(text, order) ==
    LET r == ForHashes([text |-> text, work_done |-> FALSE, ok |-> TRUE], order)
    IN  [r EXCEPT !.text = Trim(r.text)]

\* one iteration of the while loop: trim, clear the flag, try every
\* hashtag in the iteration order of the set
TrimPass(text, order) ==
    ForHashes([text |-> Trim(text), work_done |-> FALSE, ok |-> TRUE], order)

\* the whole while loop from a working text
RECURSIVE TrimLoop(_, _)
TrimLoop(text, order) ==
    LET r == TrimPass(text, order)
    IN  IF ~r.ok THEN r
        ELSE IF r.work_done THEN TrimLoop(r.text, order)
        ELSE r

\* lines 89-92: the set collected into a vector in its iteration order,
\* sorted, and mapped to HashTag
SortedHashTags(order) ==
    LET v == SortVec(order) IN [i \in DOMAIN v |-> HashTagNew(v[i])]

(***************************************************************************)
(* extract_variables.                                                      *)
(***************************************************************************)
DigitVal(c) == Ord[c] - 48

RECURSIVE ParseNat(_)
ParseNat(s) ==
    IF s = <<>> THEN 0 ELSE 10 * ParseNat(SubSeq(s, 1, Len(s) - 1)) + DigitVal(s[Len(s)])

IsDigits(s) == s # <<>> /\ \A i \in DOMAIN s : s[i] \in Digit

TimeUnit(c) ==
    CASE c = "d" -> "Day" [] c = "m" -> "Minute" [] c = "M" -> "Month" [] c = "y" -> "Year"

\* VariableValue::infer: Boolean, then Time, then Number, then String
Infer(value) ==
    IF value = <<"t","r","u","e">> THEN [kind |-> "Boolean", num |-> 1, text |-> <<>>]
    ELSE IF value = <<"f","a","l","s","e">> THEN [kind |-> "Boolean", num |-> 0, text |-> <<>>]
    ELSE IF Len(value) >= 2 /\ value[Len(value)] \in {"d", "m", "M", "y"}
            /\ IsDigits(SubSeq(value, 1, Len(value) - 1))
         THEN [kind |-> TimeUnit(value[Len(value)]),
               num |-> ParseNat(SubSeq(value, 1, Len(value) - 1)), text |-> <<>>]
    ELSE IF IsDigits(value) THEN [kind |-> "Number", num |-> ParseNat(value), text |-> <<>>]
    ELSE [kind |-> "String", num |-> 0, text |-> value]

\* Variable::new
VariableNew(name, value) == [name |-> name, value |-> value]

\* rx.captures_iter(input) for \$([A-Za-z][A-Za-z0-9_-]*)=([A-Za-z0-9_-]+):
\* the matches from index i on, each as [from, to, name, value]
RECURSIVE VarMatchesFrom(_, _)
VarMatchesFrom(s, i) ==
    IF i > Len(s) THEN {}
    ELSE IF s[i] = "$" /\ i + 1 <= Len(s) /\ s[i + 1] \in Letter
         THEN LET j == RunEnd(s, i + 2, WordChar)
                  k == RunEnd(s, j + 2, WordChar)
              IN  IF j + 1 <= Len(s) /\ s[j + 1] = "=" /\ k >= j + 2
                  THEN {[from |-> i, to |-> k, name |-> SubSeq(s, i + 1, j),
                         value |-> SubSeq(s, j + 2, k)]}
                       \cup VarMatchesFrom(s, k + 1)
                  ELSE VarMatchesFrom(s, i + 1)
         ELSE VarMatchesFrom(s, i + 1)

VarMatches(s) == VarMatchesFrom(s, 1)

\* the HashSet<Variable> built by the capture loop
VariableSet(s) == {VariableNew(m.name, Infer(m.value)) : m \in VarMatches(s)}

\* the text with every variable token cut out
RECURSIVE StripVariablesFrom(_, _)
StripVariablesFrom(s, i) ==
    IF i > Len(s) THEN <<>>
    ELSE IF \E m \in VarMatches(s) : m.from = i
         THEN LET m == CHOOSE m \in VarMatches(s) : m.from = i
              IN  StripVariablesFrom(s, m.to + 1)
         ELSE <<s[i]>> \o StripVariablesFrom(s, i + 1)

StripVariables(s) == StripVariablesFrom(s, 1)

\* the text extract_variables returns: input.to_string()
VariablesText(s) == s

(***************************************************************************)
(* NodeInfo::parse: the subgraph splitter.                                 *)
(***************************************************************************)
IsSubgraphTag(t) == StartsWith(HashTagToString(t), SG)

\* the last subgraph tag in the place of the first
FindLastSubgraph(ts) ==
    IF \E i \in DOMAIN ts : IsSubgraphTag(ts[i])
    THEN <<ts[CHOOSE i \in DOMAIN ts :
                IsSubgraphTag(ts[i]) /\ \A j \in (i + 1)..Len(ts) : ~IsSubgraphTag(ts[j])]>>
    ELSE <<>>

\* tags.iter().find(..).cloned(): <<>> is None, <<t>> is Some(t)
FindSubgraph(ts) ==
    IF \E i \in DOMAIN ts : IsSubgraphTag(ts[i])
    THEN <<ts[CHOOSE i \in DOMAIN ts :
                IsSubgraphTag(ts[i]) /\ \A j \in 1..(i - 1) : ~IsSubgraphTag(ts[j])]>>
    ELSE <<>>

\* the collect without the filter
KeepAllTags(ts) == ts

\* tags.into_iter().filter(..).collect()
OrdinaryTags(ts) == SelectSeq(ts, LAMBDA t : ~IsSubgraphTag(t))

\* extract_hashtags as a function of the text and of the iteration order
\* of the hashtag set, a member of Perms(HashMatches(s))
ExtractHashtags(s, order) ==
    LET r == TrimLoop(s, order)
    IN  [ok |-> r.ok, hashtags |-> SortedHashTags(order), text |-> r.text]

\* NodeInfo::parse as a function of the label and of the iteration order
\* of the hashtag set
NodeInfoParse(s, order) ==
    LET e == ExtractHashtags(s, order)
    IN  [ok |-> e.ok, label |-> VariablesText(e.text),
         tags |-> OrdinaryTags(e.hashtags), subgraph |-> FindSubgraph(e.hashtags)]

(***************************************************************************)
(* The labels the tests of the module parse.                               *)
(***************************************************************************)
LabelNoMarkup ==
    <<"n","o"," ","h","a","s","h","t","a","g","s">>

LabelInnerHashtag ==
    <<"a"," ","#","h","a","s","h","t","a","g"," ","i","n"," ","t","h","e"," ",
      "m","i","d","d","l","e">>

LabelEndHashtag ==
    <<"a"," ","#","h","a","s","h","t","a","g"," ","a","t"," ","t","h","e"," ",
      "#","e","n","d">>

LabelEndSubgraph ==
    <<"a"," ","#","h","a","s","h","t","a","g"," ","i","n"," ","t","h","e"," ",
      "m","i","d","d","l","e"," ","a","n","d"," ","a"," ","#","S","G","_","S",
      "U","B","G","R","A","P","H">>

LabelBooleanVariable ==
    <<"p","o","s","i","t","i","v","e"," ","c","h","o","i","c","e"," ","$","c",
      "h","o","i","c","e","=","t","r","u","e">>

TestLabels ==
    {LabelNoMarkup, LabelInnerHashtag, LabelEndHashtag, LabelEndSubgraph,
     LabelBooleanVariable}

(***************************************************************************)
(* Inputs: the labels of the tests and every concatenation of at most MaxPieces pieces.                *)
(***************************************************************************)
MaxPieces == 4

\* the fragments labels are put together from
Pieces == { <<" ">>, <<"a">>, <<"-">>, <<"#">>, <<"#","a">>, <<"#","B">>,
            <<"#","S","G","_">>, <<"$","a">>, <<"=","t","r","u","e">> }

RECURSIVE InputsOfLen(_)
InputsOfLen(n) ==
    IF n = 0 THEN {<<>>}
    ELSE {p \o s : p \in Pieces, s \in InputsOfLen(n - 1)}

Inputs == TestLabels \cup UNION {InputsOfLen(n) : n \in 0..MaxPieces}

(***************************************************************************)
(* The state machine.                                                      *)
(***************************************************************************)
Init ==
    /\ input \in Inputs
    /\ pc = "start"
    /\ hashes = <<>>
    /\ new_label = <<>>
    /\ work_done = FALSE
    /\ passes = 0
    /\ hashtags = <<>>
    /\ text1 = <<>>
    /\ variables = <<>>
    /\ label = <<>>
    /\ tags = <<>>
    /\ subgraph = <<>>

\* lines 66-76: collect the matches into the set, set up the loop
ScanHashtags ==
    /\ pc = "start"
    /\ \E order \in Perms(HashMatches(input)) : hashes' = order
    /\ new_label' = input
    /\ work_done' = TRUE
    /\ pc' = "trim"
    /\ UNCHANGED <<input, passes, hashtags, text1, variables, label, tags, subgraph>>

\* lines 78-88: one pass of the loop
Pass ==
    /\ pc = "trim"
    /\ work_done
    /\ LET r == TrimPass(new_label, hashes)
       IN  /\ new_label' = r.text
           /\ work_done' = r.work_done
           /\ pc' = IF r.ok THEN "trim" ELSE "panic"
    /\ passes' = passes + 1
    /\ UNCHANGED <<input, hashes, hashtags, text1, variables, label, tags, subgraph>>

\* lines 89-93 and 29: the loop is left, the set is sorted and returned
SortHashes ==
    /\ pc = "trim"
    /\ ~work_done
    /\ hashtags' = SortedHashTags(hashes)
    /\ text1' = new_label
    /\ pc' = "variables"
    /\ UNCHANGED <<input, hashes, new_label, work_done, passes, variables, label, tags, subgraph>>

\* lines 30, 51-63
ExtractVariables ==
    /\ pc = "variables"
    /\ \E order \in Perms(VariableSet(text1)) : variables' = order
    /\ label' = VariablesText(text1)
    /\ pc' = "split"
    /\ UNCHANGED <<input, hashes, new_label, work_done, passes, hashtags, text1, tags, subgraph>>

\* lines 32-47
Assemble ==
    /\ pc = "split"
    /\ subgraph' = FindSubgraph(hashtags)
    /\ tags' = OrdinaryTags(hashtags)
    /\ pc' = "done"
    /\ UNCHANGED <<input, hashes, new_label, work_done, passes, hashtags, text1, variables, label>>

Next ==
    \/ ScanHashtags
    \/ Pass
    \/ SortHashes
    \/ ExtractVariables
    \/ Assemble

Spec == Init /\ [][Next]_vars

(***************************************************************************)
(* What the claims speak of, stated without the operators of the model.    *)
(***************************************************************************)
IsPrefix(p, s) == Len(p) <= Len(s) /\ \A i \in 1..Len(p) : s[i] = p[i]

IsSuffix(p, s) ==
    Len(p) <= Len(s) /\ \A i \in 1..Len(p) : s[Len(s) - Len(p) + i] = p[i]

IsTrimmed(s) == s = <<>> \/ (s[1] \notin WhiteSpace /\ s[Len(s)] \notin WhiteSpace)

\* s without its leading and trailing whitespace
Trimmed(s) ==
    IF \A i \in 1..Len(s) : s[i] \in WhiteSpace THEN <<>>
    ELSE LET a == CHOOSE i \in 1..Len(s) :
                    s[i] \notin WhiteSpace /\ \A k \in 1..(i - 1) : s[k] \in WhiteSpace
             b == CHOOSE i \in 1..Len(s) :
                    s[i] \notin WhiteSpace /\ \A k \in (i + 1)..Len(s) : s[k] \in WhiteSpace
         IN  [k \in 1..(b - a + 1) |-> s[a + k - 1]]

\* s[i..j] is a match of #[A-Za-z][A-Za-z0-9_-]*: the pattern is greedy and
\* no match holds a second #, so the matches are the maximal ones
IsHashAt(s, i, j) ==
    /\ 1 <= i /\ i < j /\ j <= Len(s)
    /\ s[i] = "#"
    /\ s[i + 1] \in Letter
    /\ \A k \in (i + 2)..j : s[k] \in WordChar
    /\ (j = Len(s) \/ s[j + 1] \notin WordChar)

\* the substrings of s the hashtag pattern matches
Matched(s) ==
    {SubSeq(s, x[1], x[2]) :
        x \in {y \in {i \in 1..Len(s) : s[i] = "#"} \X (1..Len(s)) : IsHashAt(s, y[1], y[2])}}

\* byte-wise lexicographic order
LexLess(a, b) ==
    \E k \in 0..Len(a) :
        /\ k <= Len(b)
        /\ \A i \in 1..k : a[i] = b[i]
        /\ \/ (k = Len(a) /\ k < Len(b))
           \/ (k < Len(a) /\ k < Len(b) /\ Ord[a[k + 1]] < Ord[b[k + 1]])

\* s is a run of whitespace and of hashtags of H
RECURSIVE IsTrailingRun(_, _)
IsTrailingRun(s, H) ==
    \/ s = <<>>
    \/ s[1] \in WhiteSpace /\ IsTrailingRun(SubSeq(s, 2, Len(s)), H)
    \/ \E h \in H : IsPrefix(h, s) /\ IsTrailingRun(SubSeq(s, Len(h) + 1, Len(s)), H)

\* what follows the first n characters of s
After(s, n) == SubSeq(s, n + 1, Len(s))

\* the number of # in s
Sharps(s) == Cardinality({i \in 1..Len(s) : s[i] = "#"})

Done == pc = "done"

\* the text of the tags, as a set
TagTexts == {tags[i].hash : i \in 1..Len(tags)}

\* the label lost a trailing hashtag
SomeTrimmed == Sharps(label) < Sharps(input)

\* a hashtag is left inside the label
SomeKept == Matched(label) # {}

(***************************************************************************)
(* The claims.                                                             *)
(***************************************************************************)
\* C1: the label NodeInfo::parse returns has no leading and no trailing
\* whitespace and does not end with any hashtag matched in the input.
C1_LabelHasNoTrailingHashtag ==
    Done => /\ IsTrimmed(label)
            /\ \A h \in Matched(input) : ~IsSuffix(h, label)

\* a label that kept a mid-text hashtag and lost two trailing ones
C1_Witness ==
    Done /\ SomeKept /\ Sharps(label) + 2 <= Sharps(input) /\ passes >= 3

\* C2: the label is a prefix of the trimmed input, what was removed is a run
\* of whitespace and matched hashtags, and it is the whole trailing run: no
\* shorter prefix leaves such a run (so every character before the run, a
\* mid-text hashtag too, is kept, and an input without a trailing hashtag
\* comes back trimmed).
C2_OnlyTrailingRunRemoved ==
    Done =>
      LET T == Trimmed(input)
          H == Matched(input)
      IN  /\ IsPrefix(label, T)
          /\ IsTrailingRun(After(T, Len(label)), H)
          /\ \A n \in 0..(Len(label) - 1) : ~IsTrailingRun(After(T, n), H)
          /\ ((\A h \in H : ~IsSuffix(h, T)) => label = T)

\* a mid-text hashtag stays while the same hashtag is cut from the end
C2_Witness ==
    /\ Done
    /\ \E h \in Matched(label) : IsSuffix(h, Trimmed(input))
    /\ label # Trimmed(input)

\* C3: tags holds exactly the matched hashtags that do not start with #SG_,
\* each once, in ascending lexicographic order.
C3_TagsAreTheMatchesSorted ==
    Done =>
      /\ TagTexts = {h \in Matched(input) : ~IsPrefix(SG, h)}
      /\ \A i, j \in 1..Len(tags) : i < j => LexLess(tags[i].hash, tags[j].hash)

\* two ordinary tags, one mid-text and kept, one trailing and trimmed, with
\* a subgraph tag beside them, collected in the opposite of the sorted order
C3_Witness ==
    /\ Done
    /\ Len(tags) >= 2
    /\ SomeKept /\ SomeTrimmed
    /\ LexLess(hashes[2], hashes[1])

\* C4: whatever the iteration order of the hashtag set, NodeInfo::parse
\* gives the label, the tags and the subgraph this run gave.
C4_IterationOrderIsIrrelevant ==
    Done =>
      \A o \in Perms(Range(hashes)) :
          NodeInfoParse(input, o) =
              [ok |-> TRUE, label |-> label, tags |-> tags, subgraph |-> subgraph]

\* three hashtags, all trailing, cut in a single pass by a lucky order
C4_Witness ==
    Done /\ Len(hashes) >= 3 /\ Matched(label) = {} /\ passes = 2

\* C5 as stated: a second extraction, on the cleaned label, finds no hashtag
\* and returns the label unchanged.
C5_Original ==
    Done =>
      \A o \in Perms(HashMatches(text1)) :
          ExtractHashtags(text1, o) = [ok |-> TRUE, hashtags |-> <<>>, text |-> text1]

\* C5 amended: a second extraction, on the cleaned label, returns the label
\* unchanged and finds exactly the hashtags still inside the label, all of
\* them hashtags of the first extraction.
C5_ReextractionKeepsLabel ==
    Done =>
      \A o \in Perms(HashMatches(text1)) :
          LET e == ExtractHashtags(text1, o)
          IN  /\ e.ok
              /\ e.text = text1
              /\ {e.hashtags[i].hash : i \in 1..Len(e.hashtags)} = Matched(text1)
              /\ Matched(text1) \subseteq Matched(input)

\* a cleaned label that lost a trailing hashtag and still holds one
C5_Witness ==
    Done /\ SomeKept /\ SomeTrimmed /\ Matched(text1) # Matched(input)

\* s[i..j] is a match of \$([A-Za-z][A-Za-z0-9_-]*)=([A-Za-z0-9_-]+)
IsVarAt(s, i, j) ==
    /\ 1 <= i /\ j <= Len(s)
    /\ s[i] = "$"
    /\ \E e \in (i + 2)..(j - 1) :
          /\ s[i + 1] \in Letter
          /\ \A k \in (i + 2)..(e - 1) : s[k] \in WordChar
          /\ s[e] = "="
          /\ \A k \in (e + 1)..j : s[k] \in WordChar
    /\ (j = Len(s) \/ s[j + 1] \notin WordChar)

VarTokens(s) == {x \in (1..Len(s)) \X (1..Len(s)) : IsVarAt(s, x[1], x[2])}

C8_SubgraphSplit ==
    Done =>
      /\ \A h \in TagTexts : ~IsPrefix(SG, h)
      /\ Len(subgraph) <= 1
      /\ \A i \in 1..Len(subgraph) :
            subgraph[i].hash \in Matched(input) /\ IsPrefix(SG, subgraph[i].hash)
      /\ Len(subgraph) = 1 <=> \E h \in Matched(input) : IsPrefix(SG, h)

\* a subgraph tag cut from the end of the label, an ordinary tag kept in it
C8_Witness ==
    /\ Done
    /\ Len(subgraph) = 1
    /\ \A h \in Matched(label) : ~IsPrefix(SG, h)
    /\ SomeKept
    /\ Len(tags) >= 1

\* the #SG_ hashtags matched in the input
SubgraphMatches == {h \in Matched(input) : IsPrefix(SG, h)}

\* C10: of two or more #SG_ hashtags the lexicographically smallest is the
\* subgraph, the others are in neither subgraph nor tags, and none of them
\* is left at the end of the label.
C10_SmallestSubgraphWins ==
    Done /\ Cardinality(SubgraphMatches) >= 2 =>
      /\ Len(subgraph) = 1
      /\ subgraph[1].hash \in SubgraphMatches
      /\ \A h \in SubgraphMatches \ {subgraph[1].hash} :
            LexLess(subgraph[1].hash, h) /\ h \notin TagTexts
      /\ TagTexts \cap SubgraphMatches = {}
      /\ \A h \in SubgraphMatches : ~IsSuffix(h, label)

\* two #SG_ hashtags differing in a character, the greater iterated first,
\* both cut from the end of the label
C10_Witness ==
    /\ Done
    /\ Cardinality(SubgraphMatches) >= 2
    /\ \E h \in SubgraphMatches : LexLess(h, hashes[1]) /\ ~IsPrefix(h, hashes[1])
    /\ SomeTrimmed

\* the variable choice = Boolean(true)
ChoiceTrue == [name |-> <<"c","h","o","i","c","e">>,
               value |-> [kind |-> "Boolean", num |-> 1, text |-> <<>>]]

\* the input is plain text, whitespace and one variable token name=true
\* that starts at i and ends the input
IsTextThenBoolean(s, i) ==
    /\ i > 2
    /\ IsVarAt(s, i, Len(s))
    /\ Len(s) - i >= 6
    /\ SubSeq(s, Len(s) - 4, Len(s)) = <<"=","t","r","u","e">>
    /\ s[i - 1] \in WhiteSpace
    /\ \A k \in 1..(i - 1) : s[k] \in Letter \cup WhiteSpace
    /\ \E k \in 1..(i - 1) : s[k] \in Letter

\* C7: a label of plain text and one trailing variable token name=true
\* gives no tags, no subgraph, the variable name = Boolean(true), and a
\* label without the token; the label of the test gives "a positive choice".
C7_VariableTokenRemoved ==
    Done =>
      /\ \A i \in 1..Len(input) :
            IsTextThenBoolean(input, i) =>
              /\ tags = <<>>
              /\ subgraph = <<>>
              /\ Len(variables) = 1
              /\ variables[1].name = SubSeq(input, i + 1, Len(input) - 5)
              /\ variables[1].value = [kind |-> "Boolean", num |-> 1, text |-> <<>>]
              /\ label = Trimmed(SubSeq(input, 1, i - 1))
      /\ input = LabelBooleanVariable =>
            /\ tags = <<>>
            /\ subgraph = <<>>
            /\ variables = <<ChoiceTrue>>
            /\ label = <<"a"," ","p","o","s","i","t","i","v","e"," ","c","h","o","i","c","e">>

\* the number of hashtags of H that can be taken, one after the other and
\* whitespace apart, from the end of s
RECURSIVE TrailingCount(_, _)
TrailingCount(s, H) ==
    LET t == Trimmed(s)
    IN  IF \E h \in H : IsSuffix(h, t)
        THEN LET h == CHOOSE h \in H : IsSuffix(h, t)
             IN  1 + TrailingCount(SubSeq(t, 1, Len(t) - Len(h)), H)
        ELSE 0

\* the number of hashtag occurrences in the trailing run of the input
TrailingTags == TrailingCount(input, Matched(input))

\* what every pass of the loop makes smaller
Rank == Len(new_label) + (IF work_done THEN 1 ELSE 0)

\* C9: parse is total and its loop ends: no slice index falls outside the
\* working text; the passes are at most the trailing hashtag occurrences
\* plus one; a pass that removes a hashtag shortens the working text, one
\* that removes nothing only trims it, every pass lowers Rank, and the loop
\* is left right after the first pass that removes nothing.
C9_ParseIsTotal ==
    /\ [](pc \in {"start", "trim", "variables", "split", "done"})
    /\ [](pc = "trim" => passes <= TrailingTags + 1)
    /\ [][pc = "trim" /\ passes' = passes + 1 =>
            /\ pc' = "trim"
            /\ work_done' => Len(new_label') < Len(new_label)
            /\ ~work_done' => new_label' = Trimmed(new_label)
            /\ Rank' < Rank]_vars
    /\ [][pc = "trim" /\ ~work_done => pc' = "variables"]_vars

\* three passes that each cut one trailing hashtag and a fourth that ends
\* the loop
C9_Witness ==
    Done /\ passes = 4 /\ TrailingTags = 3

\* parse of the empty label and of a label of whitespace alone
C9_WitnessBlank ==
    Done /\ input # <<>> /\ Trimmed(input) = <<>> /\ passes = 1
====
